---- MODULE Spec2Model ----
(***************************************************************************)
(* Model of app.py (Scooter Port Visibility Scorer): the location          *)
(* resolver extract_coords_from_input, the scoring engine                  *)
(* assess_visibility_rank_v2 under @st.cache_data, the per-row helper      *)
(* process_single_row, the single-search flow and the batch runner         *)
(* (ThreadPoolExecutor(max_workers=5) / as_completed).                     *)
(*                                                                         *)
(* Conventions.                                                            *)
(*  - Scores are kept in HALF POINTS (the code adds 3, 2, 1 and 0.5; the   *)
(*    model adds 6, 4, 2 and 1), so the thresholds 4 / 3 / 1.5 are         *)
(*    8 / 6 / 3.                                                           *)
(*  - None is the empty tuple; a coordinate is the pair <<lat, lon>>.      *)
(*  - A note of the trace is <<kind, tag>>; the Japanese text of each note *)
(*    is given where the note is produced.  detail_str is " / ".join of    *)
(*    the notes: the model keeps the sequence of notes.                    *)
(*  - A text is modelled by what the code looks at: whether it contains    *)
(*    "http", whether it contains one of the address characters, and its   *)
(*    split(',') as a sequence of tokens, each either a text float()       *)
(*    accepts (with its value) or one on which float() raises ValueError.  *)
(***************************************************************************)
EXTENDS Integers, Sequences, FiniteSets, TLC

\* --------------------------------------------------------------- bounds
NRows     == 2      \* rows of the uploaded table (total = len(df))
MaxNum    == 2      \* numeric values 1..MaxNum stand for latitudes/longitudes
MaxDegree == 4      \* largest node degree of the simplified drive graph

\* ------------------------------------------------------ program constants
max_workers == 5    \* ThreadPoolExecutor(max_workers=5)

None   == << >>
Nums   == 1..MaxNum
Coords == { <<a, b>> : a \in Nums, b \in Nums }
Rows   == 0..(NRows - 1)          \* df.iterrows() index / range(total)

\* -------------------------------------------------------------- texts
Word     == [num |-> FALSE, val |-> 0]          \* float(tok) raises ValueError
Number(v) == [num |-> TRUE, val |-> v]          \* float(tok) = v
Tokens   == {Word} \cup { Number(v) : v \in Nums }
Parts    == { <<a>> : a \in Tokens } \cup { <<a, b>> : a \in Tokens, b \in Tokens }

\* user_input / str(row[target_col]) after strip()
Inputs ==
  [http : {FALSE}, addr : BOOLEAN, parts : Parts]
    \cup [http : {TRUE}, addr : {FALSE}, parts : {<<Word>>}]

\* response.url as the three patterns see it:
\*   at : groups of re.search(r'@(-?\d+\.\d+),(-?\d+\.\d+)') or None
\*   q  : parse_qs(urlparse(final_url).query)['q'][0].split(','), None when
\*        'q' is not in qs
\*   d3 / d4 : group of re.search(r'!3d(-?\d+\.\d+)') / r'!4d...'; 0 = no match
FinalURLs ==
  [at : {None} \cup Coords, q : {None} \cup Parts, d3 : 0..MaxNum, d4 : 0..MaxNum]

\* what requests.get(user_input, allow_redirects=True, timeout=5) resolves to
\* and what geolocator.geocode(user_input) answers (None or a location)
GeoAnswers == {None} \cup Coords

\* ------------------------------------------------------- OSM snapshot
major_roads  == {"motorway", "trunk", "primary", "secondary"}
medium_roads == {"tertiary"}
living_roads == {"residential", "unclassified", "living_street"}
non_vehicle  == {"pedestrian", "footway", "path", "steps", "cycleway"}

AllTags   == major_roads \cup medium_roads \cup living_roads \cup non_vehicle
               \cup {"service", "track"}
DriveTags == major_roads \cup medium_roads \cup living_roads \cup {"primary_link"}

\* the 'highway' attribute of an edge: absent (<<>>), a string (<<t>>) or a list
AllAttrs   == {<< >>} \cup { <<t>> : t \in AllTags }
                \cup {<<"footway", "primary">>, <<"service", "residential">>}
DriveAttrs == {<< >>} \cup { <<t>> : t \in DriveTags }
                \cup {<<"tertiary", "residential">>}

NoRoad  == [found |-> FALSE, highway |-> << >>]
NoDrive == [found |-> FALSE, highway |-> << >>, degree |-> 0]

\* what the dataset holds around one point:
\*   station : a station / subway entrance within 240 m
\*   road    : nearest edge of the 'all' network within 100 m
\*   drive   : nearest edge and nearest node's degree of the 'drive' network
\*             within 50 m
Sites ==
  [station : BOOLEAN,
   road    : {NoRoad} \cup [found : {TRUE}, highway : AllAttrs],
   drive   : {NoDrive} \cup [found : {TRUE}, highway : DriveAttrs, degree : 1..MaxDegree]]

\* ============================================================ resolver
\* One leg of extract_coords_from_input: it either returned a value
\* (returned, value), or fell through to the code after it.
Returned(v)  == [returned |-> TRUE,  value |-> v]
FellThrough  == [returned |-> FALSE, value |-> None]

\* Pattern A (lines 33-38): ',' in user_input, no 'http', none of the
\* address characters; float(parts[0]), float(parts[1]); any exception: pass.
PatternA(user_input) ==
  IF Len(user_input.parts) >= 2 /\ ~user_input.http /\ ~user_input.addr
    THEN IF user_input.parts[1].num /\ user_input.parts[2].num
           THEN Returned(<<user_input.parts[1].val, user_input.parts[2].val>>)
           ELSE FellThrough
    ELSE FellThrough

\* Lines 51-53: if 'q' in qs: coords = qs['q'][0].split(',');
\* if len(coords) >= 2: return float(coords[0]), float(coords[1]).
\* raised = float() raised ValueError inside the try of pattern B.
QParam(q) ==
  IF q # None /\ Len(q) >= 2
    THEN IF q[1].num /\ q[2].num
           THEN [raised |-> FALSE, hit |-> TRUE,  value |-> <<q[1].val, q[2].val>>]
           ELSE [raised |-> TRUE,  hit |-> FALSE, value |-> None]
    ELSE [raised |-> FALSE, hit |-> FALSE, value |-> None]

\* Pattern B (lines 41-60), entered when 'http' in user_input.
\* fetch = [ok, url]: requests.get raised (ok = FALSE) or gave response.url.
PatternB(fetch) ==
  IF ~fetch.ok THEN Returned(None)                            \* except: return None
  ELSE IF fetch.url.at # None THEN Returned(fetch.url.at)      \* line 47
  ELSE IF QParam(fetch.url.q).raised THEN Returned(None)      \* except: return None
  ELSE IF QParam(fetch.url.q).hit THEN Returned(QParam(fetch.url.q).value)
  ELSE IF fetch.url.d3 # 0 /\ fetch.url.d4 # 0
         THEN Returned(<<fetch.url.d3, fetch.url.d4>>)        \* line 58
  ELSE FellThrough                                            \* leaves the if block

\* Pattern C (lines 63-71): geolocator.geocode(user_input).
\* geocode = [ok, loc]: the call raised (ok = FALSE) or answered loc (None or
\* a location).
PatternC(geocode) ==
  IF ~geocode.ok THEN None
  ELSE geocode.loc

\* extract_coords_from_input: the value returned and the external calls made,
\* each call with its outcome.
extract_coords_from_input(user_input, fetch, geocode) ==
  LET A == PatternA(user_input)
      B == IF user_input.http THEN PatternB(fetch) ELSE FellThrough
      fetched == IF user_input.http
                   THEN {<<"requests.get", IF fetch.ok THEN "ok" ELSE "fail">>}
                   ELSE {}
  IN  IF A.returned THEN [ret |-> A.value, calls |-> {}]
      ELSE IF B.returned THEN [ret |-> B.value, calls |-> fetched]
      ELSE [ret   |-> PatternC(geocode),
            calls |-> fetched \cup {<<"geocode", IF geocode.ok THEN "ok" ELSE "fail">>}]

\* ====================================================== scoring engine
FirstTag(attr) == IF attr = << >> THEN "unknown" ELSE attr[1]   \* lines 100-101

\* Check 1 with the handler of line 91 letting the exception through.
TransitCheck_Raises(site, ok, score, details) ==
  IF ~ok THEN [raised |-> TRUE, score |-> score, details |-> details]
  ELSE IF site.station
    THEN [raised |-> FALSE, score |-> score + 6,
          details |-> Append(details, <<"station_near", "">>)]
    ELSE [raised |-> FALSE, score |-> score,
          details |-> Append(details, <<"station_far", "">>)]

\* Check 1 (lines 83-92).  ok = features_from_point did not raise.
\* Notes: station_near = "駅徒歩3分圏内 (+3.0)", station_far = "駅遠 (0)".
TransitCheck(site, ok, score, details) ==
  IF ~ok THEN [raised |-> FALSE, score |-> score, details |-> details]   \* except: pass
  ELSE IF site.station
    THEN [raised |-> FALSE, score |-> score + 6,
          details |-> Append(details, <<"station_near", "">>)]
    ELSE [raised |-> FALSE, score |-> score,
          details |-> Append(details, <<"station_far", "">>)]

\* The rescue with line 120 accepting every drive road it finds.
SidewalkRescue_AnyDriveRoad(site, okDrive, highway, details) ==
  IF okDrive /\ site.drive.found
    THEN [final_highway |-> FirstTag(site.drive.highway),
          is_sidewalk_of_major |-> TRUE,
          details |-> Append(details, <<"sidewalk_rescue", FirstTag(site.drive.highway)>>)]
    ELSE [final_highway |-> highway, is_sidewalk_of_major |-> FALSE,
          details |-> details]

\* Lines 112-125: the rescue of a non-vehicle tag.  okDrive = the drive-network
\* query within 50 m did not raise (raises also when no drive road is there).
\* Note: sidewalk_rescue = "歩道上ですが横に{final_highway}を検知".
SidewalkRescue(site, okDrive, highway, details) ==
  IF okDrive /\ site.drive.found
       /\ FirstTag(site.drive.highway) \in (major_roads \cup medium_roads)
    THEN [final_highway |-> FirstTag(site.drive.highway),
          is_sidewalk_of_major |-> TRUE,
          details |-> Append(details, <<"sidewalk_rescue", FirstTag(site.drive.highway)>>)]
    ELSE [final_highway |-> highway, is_sidewalk_of_major |-> FALSE,
          details |-> details]                                  \* except: pass

\* Line 112 with service roads rescued as well.
NeedsRescue_Service(highway) == highway \in non_vehicle \cup {"service"}

\* Whether the rescue block is entered (line 112).
NeedsRescue(highway) == highway \in non_vehicle

\* Check 2, first half (lines 96-125).  okAll = the 'all' network query within
\* 100 m and the nearest-edge lookup did not raise.  raised = control went to
\* the handler of line 143.
RoadLookup(site, okAll, okDrive, details) ==
  IF ~(okAll /\ site.road.found)
    THEN [raised |-> TRUE, highway |-> "unknown", final_highway |-> "unknown",
          is_sidewalk_of_major |-> FALSE, details |-> details, rescue |-> FALSE]
    ELSE LET highway == FirstTag(site.road.highway) IN
         IF NeedsRescue(highway)
           THEN LET r == SidewalkRescue(site, okDrive, highway, details) IN
                [raised |-> FALSE, highway |-> highway,
                 final_highway |-> r.final_highway,
                 is_sidewalk_of_major |-> r.is_sidewalk_of_major,
                 details |-> r.details, rescue |-> TRUE]
           ELSE [raised |-> FALSE, highway |-> highway, final_highway |-> highway,
                 is_sidewalk_of_major |-> FALSE, details |-> details, rescue |-> FALSE]

\* The tier mapping with a rescued road scored at the rescue and again here.
RoadTier_RescueTwice(highway, final_highway, is_sidewalk_of_major, score, details) ==
  LET base == IF is_sidewalk_of_major THEN score + 4 ELSE score IN
  IF final_highway \in major_roads
    THEN [score |-> base + 4, details |-> Append(details, <<"major", final_highway>>)]
  ELSE IF final_highway \in medium_roads
    THEN [score |-> base + 2, details |-> Append(details, <<"medium", final_highway>>)]
  ELSE IF final_highway \in living_roads
    THEN [score |-> base + 1, details |-> Append(details, <<"living", final_highway>>)]
  ELSE IF highway \in {"service"}
    THEN [score |-> base, details |-> Append(details, <<"service", "">>)]
  ELSE IF highway \in non_vehicle /\ ~is_sidewalk_of_major
    THEN [score |-> base, details |-> Append(details, <<"non_vehicle", highway>>)]
  ELSE [score |-> base, details |-> Append(details, <<"narrow", "">>)]

\* Check 2, second half (lines 127-141).  Notes: major = "幹線道路沿い(..) (+2.0)",
\* medium = "バス通り(..) (+1.0)", living = "生活道路(..) (+0.5)",
\* service = "敷地内/私道 (0)", non_vehicle = "車両不可エリア(..)",
\* narrow = "細街路 (0)".
RoadTier(highway, final_highway, is_sidewalk_of_major, score, details) ==
  IF final_highway \in major_roads
    THEN [score |-> score + 4, details |-> Append(details, <<"major", final_highway>>)]
  ELSE IF final_highway \in medium_roads
    THEN [score |-> score + 2, details |-> Append(details, <<"medium", final_highway>>)]
  ELSE IF final_highway \in living_roads
    THEN [score |-> score + 1, details |-> Append(details, <<"living", final_highway>>)]
  ELSE IF highway \in {"service"}
    THEN [score |-> score, details |-> Append(details, <<"service", "">>)]
  ELSE IF highway \in non_vehicle /\ ~is_sidewalk_of_major
    THEN [score |-> score, details |-> Append(details, <<"non_vehicle", highway>>)]
  ELSE [score |-> score, details |-> Append(details, <<"narrow", "">>)]

\* Lines 143-144: except Exception: details.append("道路データエラー").
RoadError(score, details) ==
  [score |-> score, details |-> Append(details, <<"road_error", "">>)]

\* Check 3 (lines 147-155).  ok = the simplified drive graph within 50 m and
\* the nearest-node lookup did not raise.  Note: intersection = "交差点/角地 (+1.0)".
IntersectionCheck(site, ok, score, details) ==
  IF ~(ok /\ site.drive.found)
    THEN [raised |-> FALSE, score |-> score, details |-> details]   \* except: pass
  ELSE IF site.drive.degree >= 3
    THEN [raised |-> FALSE, score |-> score + 2,
          details |-> Append(details, <<"intersection", "">>)]
    ELSE [raised |-> FALSE, score |-> score, details |-> details]

\* The rank with line 161 written score > 3.
RankOf_StrictA(score) ==
  IF score >= 8 THEN [rank |-> "S", color |-> "green"]
  ELSE IF score > 6 THEN [rank |-> "A", color |-> "blue"]
  ELSE IF score >= 3 THEN [rank |-> "B", color |-> "orange"]
  ELSE IF score > 0 THEN [rank |-> "C", color |-> "orange"]
  ELSE [rank |-> "D", color |-> "red"]

\* Lines 158-172, in half points.
RankOf(score) ==
  IF score >= 8 THEN [rank |-> "S", color |-> "green"]
  ELSE IF score >= 6 THEN [rank |-> "A", color |-> "blue"]
  ELSE IF score >= 3 THEN [rank |-> "B", color |-> "orange"]
  ELSE IF score > 0 THEN [rank |-> "C", color |-> "orange"]
  ELSE [rank |-> "D", color |-> "red"]

\* Line 175: return rank, score, detail_str, color.
Breakdown(score, details) ==
  [rank |-> RankOf(score).rank, score |-> score, detail |-> details,
   color |-> RankOf(score).color]

NoBreakdown == [rank |-> "", score |-> 0, detail |-> << >>, color |-> ""]

\* =============================================================== state
VARIABLES
  www,          \* the final URL the web currently redirects an http input to
  geo,          \* the geocoder's current answer (None or a location)
  world,        \* the OSM snapshot: what lies around each coordinate
  raw_input,    \* per task: user_input / str(row[target_col])
  pc,           \* per task: position in process_single_row / the single search
  coords,       \* per task: value of extract_coords_from_input
  calls,        \* per task: external calls made so far, each with its outcome
  score,        \* per task: local `score` of assess_visibility_rank_v2
  details,      \* per task: local `details`
  highway,      \* per task: local `highway`
  final_highway,            \* per task: local `final_highway`
  is_sidewalk_of_major,     \* per task: local `is_sidewalk_of_major`
  ret,          \* per task: value returned by assess_visibility_rank_v2
  res,          \* per task: the dict returned by process_single_row
  cache,        \* st.cache_data: (lat, lon) -> cached return value
  locked,       \* st.cache_data: keys whose value is being computed
  results,      \* batch runner: the dict `results`, its items in insertion order
  yielded,      \* batch runner: futures as_completed has yielded
  results_list, \* batch runner: `results_list`
  bpc           \* batch runner: position of the main thread

vars == <<www, geo, world, raw_input, pc, coords, calls, score, details, highway,
          final_highway, is_sidewalk_of_major, ret, res, cache, locked, results,
          yielded, results_list, bpc>>

env    == <<www, geo, world, raw_input>>
locals == <<score, details, highway, final_highway, is_sidewalk_of_major>>
runner == <<results, yielded, results_list, bpc>>

\* process_single_row, lines 188-195: the dict before any success is recorded.
\* rank "ERR" is "エラー", reason coord_failed is "座標取得失敗".
FailureResult(index) ==
  [index |-> index, rank |-> "ERR", score |-> 0,
   reason |-> << <<"coord_failed", "">> >>, coord |-> None]

NoResult == [index |-> -1, rank |-> "", score |-> 0, reason |-> << >>, coord |-> None]

\* ------------------------------------------------- extract_coords_from_input
\* Lines 186 / 227: coords = extract_coords_from_input(raw_input).  Each external
\* call may time out or raise whatever the service holds.
Resolve(t) ==
  /\ pc[t] = "resolve"
  /\ \E fetchOk \in BOOLEAN, geoOk \in BOOLEAN :
       LET r == extract_coords_from_input(raw_input[t],
                                          [ok |-> fetchOk, url |-> www],
                                          [ok |-> geoOk, loc |-> geo])
       IN  /\ coords' = [coords EXCEPT ![t] = r.ret]
           /\ calls'  = [calls EXCEPT ![t] = r.calls]
  /\ pc' = [pc EXCEPT ![t] = "resolved"]
  /\ UNCHANGED <<env, locals, ret, res, cache, locked, runner>>

\* ------------------------------------------------------------ st.cache_data
\* The function without its decorator: a cached key is computed again.
CacheHit_Recompute(t) ==
  /\ pc[t] = "resolved"
  /\ coords[t] # None
  /\ coords[t] \in DOMAIN cache
  /\ coords[t] \notin locked
  /\ locked'  = locked \cup {coords[t]}
  /\ score'   = [score EXCEPT ![t] = 0]
  /\ details' = [details EXCEPT ![t] = << >>]
  /\ pc'      = [pc EXCEPT ![t] = "check1"]
  /\ UNCHANGED <<env, coords, calls, highway, final_highway, is_sidewalk_of_major,
                 ret, res, cache, runner>>

\* Line 76.  A call whose (lat, lon) is cached returns the cached value and
\* the body does not run.
CacheHit(t) ==
  /\ pc[t] = "resolved"
  /\ coords[t] # None
  /\ coords[t] \in DOMAIN cache
  /\ ret' = [ret EXCEPT ![t] = cache[coords[t]]]
  /\ pc'  = [pc EXCEPT ![t] = "returned"]
  /\ UNCHANGED <<env, coords, calls, locals, res, cache, locked, runner>>

\* Line 76.  On a miss the call takes the key's compute lock (a second call of
\* the same key waits for it and then finds the value cached) and runs the
\* body: lines 78-80.
CacheMiss(t) ==
  /\ pc[t] = "resolved"
  /\ coords[t] # None
  /\ coords[t] \notin DOMAIN cache
  /\ coords[t] \notin locked
  /\ locked'  = locked \cup {coords[t]}
  /\ score'   = [score EXCEPT ![t] = 0]
  /\ details' = [details EXCEPT ![t] = << >>]
  /\ pc'      = [pc EXCEPT ![t] = "check1"]
  /\ UNCHANGED <<env, coords, calls, highway, final_highway, is_sidewalk_of_major,
                 ret, res, cache, runner>>

Outcome(ok) == IF ok THEN "ok" ELSE "fail"

\* An exception leaving assess_visibility_rank_v2: the compute lock is released
\* and nothing is cached.
AfterStep(t, raised, next) ==
  /\ pc' = [pc EXCEPT ![t] = IF raised THEN "raised" ELSE next]
  /\ locked' = IF raised THEN locked \ {coords[t]} ELSE locked

\* ------------------------------------------------- assess_visibility_rank_v2
\* Lines 83-92.
Check1(t) ==
  /\ pc[t] = "check1"
  /\ \E ok \in BOOLEAN :
       LET r == TransitCheck(world[coords[t]], ok, score[t], details[t]) IN
       /\ score'   = [score EXCEPT ![t] = r.score]
       /\ details' = [details EXCEPT ![t] = r.details]
       /\ calls'   = [calls EXCEPT ![t] = @ \cup {<<"features_from_point", Outcome(ok)>>}]
       /\ AfterStep(t, r.raised, "check2")
  /\ UNCHANGED <<env, coords, highway, final_highway, is_sidewalk_of_major,
                 ret, res, cache, runner>>

\* Lines 95-125 and, when they raise, 143-144.
Check2(t) ==
  /\ pc[t] = "check2"
  /\ \E okAll \in BOOLEAN, okDrive \in BOOLEAN :
       LET r == RoadLookup(world[coords[t]], okAll, okDrive, details[t])
           e == RoadError(score[t], details[t])
       IN
       /\ highway' = [highway EXCEPT ![t] = r.highway]
       /\ final_highway' = [final_highway EXCEPT ![t] = r.final_highway]
       /\ is_sidewalk_of_major' =
            [is_sidewalk_of_major EXCEPT ![t] = r.is_sidewalk_of_major]
       /\ details' = [details EXCEPT ![t] = IF r.raised THEN e.details ELSE r.details]
       /\ score'   = [score EXCEPT ![t] = IF r.raised THEN e.score ELSE @]
       /\ calls'   = [calls EXCEPT ![t] =
                        @ \cup {<<"graph_all_100", Outcome(okAll)>>}
                          \cup (IF r.rescue THEN {<<"graph_drive_50", Outcome(okDrive)>>}
                                ELSE {})]
       /\ pc' = [pc EXCEPT ![t] = IF r.raised THEN "check3" ELSE "tier"]
  /\ UNCHANGED <<env, coords, ret, res, cache, locked, runner>>

\* Lines 127-141.
Tier(t) ==
  /\ pc[t] = "tier"
  /\ LET r == RoadTier(highway[t], final_highway[t], is_sidewalk_of_major[t],
                       score[t], details[t]) IN
       /\ score'   = [score EXCEPT ![t] = r.score]
       /\ details' = [details EXCEPT ![t] = r.details]
  /\ pc' = [pc EXCEPT ![t] = "check3"]
  /\ UNCHANGED <<env, coords, calls, highway, final_highway, is_sidewalk_of_major,
                 ret, res, cache, locked, runner>>

\* Lines 147-155.
Check3(t) ==
  /\ pc[t] = "check3"
  /\ \E ok \in BOOLEAN :
       LET r == IntersectionCheck(world[coords[t]], ok, score[t], details[t]) IN
       /\ score'   = [score EXCEPT ![t] = r.score]
       /\ details' = [details EXCEPT ![t] = r.details]
       /\ calls'   = [calls EXCEPT ![t] = @ \cup {<<"graph_simple_50", Outcome(ok)>>}]
       /\ AfterStep(t, r.raised, "rank")
  /\ UNCHANGED <<env, coords, highway, final_highway, is_sidewalk_of_major,
                 ret, res, cache, runner>>

\* Lines 157-175, and line 76: the value returned is stored under (lat, lon)
\* and the compute lock released.  The locals end with the call.
Return(t) ==
  /\ pc[t] = "rank"
  /\ LET v == Breakdown(score[t], details[t]) IN
       /\ ret'   = [ret EXCEPT ![t] = v]
       /\ cache' = [k \in DOMAIN cache \cup {coords[t]} |->
                      IF k = coords[t] THEN v ELSE cache[k]]
  /\ locked'  = locked \ {coords[t]}
  /\ score'   = [score EXCEPT ![t] = 0]
  /\ details' = [details EXCEPT ![t] = << >>]
  /\ highway' = [highway EXCEPT ![t] = "unknown"]
  /\ final_highway' = [final_highway EXCEPT ![t] = "unknown"]
  /\ is_sidewalk_of_major' = [is_sidewalk_of_major EXCEPT ![t] = FALSE]
  /\ pc' = [pc EXCEPT ![t] = "returned"]
  /\ UNCHANGED <<env, coords, calls, res, runner>>

\* --------------------------------------------------------- process_single_row
\* Lines 188-209: the dict returned for the row.  reason analysis_error is
\* "分析エラー" (the except of line 206).
RowDict(index, c, state, value) ==
  IF c = None THEN FailureResult(index)
  ELSE IF state = "raised"
    THEN [FailureResult(index) EXCEPT !.reason = << <<"analysis_error", "">> >>]
    ELSE [index |-> index, rank |-> value.rank, score |-> value.score,
          reason |-> value.detail, coord |-> c]

\* The task of row t ends: its future holds the dict.
RowResult(t) ==
  /\ bpc = "collect"
  /\ pc[t] \in {"resolved", "returned", "raised"}
  /\ pc[t] = "resolved" => coords[t] = None
  /\ res' = [res EXCEPT ![t] = RowDict(t, coords[t], pc[t], ret[t])]
  /\ ret' = [ret EXCEPT ![t] = NoBreakdown]
  /\ calls' = [calls EXCEPT ![t] = {}]
  /\ pc'  = [pc EXCEPT ![t] = "done"]
  /\ UNCHANGED <<env, coords, locals, cache, locked, runner>>

\* --------------------------------------------------------------- batch runner
\* Lines 284-286: every row is submitted; the pool runs at most max_workers
\* tasks at a time and takes them from its queue in submission order.
Running == { u \in Rows : pc[u] \notin {"queued", "done", "unused", "idle"} }

Start(t) ==
  /\ bpc = "collect"
  /\ pc[t] = "queued"
  /\ Cardinality(Running) < max_workers
  /\ \A u \in Rows : u < t => pc[u] # "queued"
  /\ pc' = [pc EXCEPT ![t] = "resolve"]
  /\ UNCHANGED <<env, coords, calls, locals, ret, res, cache, locked, runner>>

\* A dict as the sequence of its items [key, value] in insertion order:
\* d[k] = v replaces the value of an item in place or appends a new item.
Keys(d) == { d[n].key : n \in DOMAIN d }
GetItem(d, k) == d[CHOOSE n \in DOMAIN d : d[n].key = k].value
SetItem(d, k, v) ==
  IF k \in Keys(d)
    THEN [n \in DOMAIN d |-> IF d[n].key = k THEN [key |-> k, value |-> v] ELSE d[n]]
    ELSE Append(d, [key |-> k, value |-> v])

\* Line 291 with the dict keyed by the order of completion.
ResultKey_ByCompletion(r, i) == i

\* Line 291: the key under which the i-th yielded future's dict is stored.
ResultKey(r, i) == r.index

\* Lines 289-291: as_completed yields a finished future not yielded before;
\* results[res["index"]] = res.  i = number of futures yielded before.
Collect(t) ==
  /\ bpc = "collect"
  /\ pc[t] = "done"
  /\ t \notin yielded
  /\ results' = SetItem(results, ResultKey(res[t], Cardinality(yielded)), res[t])
  /\ yielded' = yielded \cup {t}
  /\ UNCHANGED <<env, pc, coords, calls, locals, ret, res, cache, locked,
                 results_list, bpc>>

\* Line 299: results_list = [results[i] for i in range(total)], once the
\* with-block has ended; a missing key raises KeyError.
Assemble ==
  /\ bpc = "collect"
  /\ yielded = Rows
  /\ IF \A i \in Rows : i \in Keys(results)
       THEN /\ results_list' = [i \in 1..NRows |-> GetItem(results, i - 1)]
            /\ bpc' = "assembled"
       ELSE /\ results_list' = << >>
            /\ bpc' = "keyerror"
  /\ UNCHANGED <<env, pc, coords, calls, locals, ret, res, cache, locked,
                 results, yielded>>

\* -------------------------------------------------------------- single search
\* Lines 223-227: the button is pressed with the text now in the box.
Press(t) ==
  /\ bpc = "single"
  /\ pc[t] = "idle"
  /\ pc' = [pc EXCEPT ![t] = "resolve"]
  /\ calls' = [calls EXCEPT ![t] = {}]
  /\ coords' = [coords EXCEPT ![t] = None]
  /\ UNCHANGED <<env, locals, ret, res, cache, locked, runner>>

\* Lines 228-246: the result (or "場所を特定できませんでした。") is shown; the
\* script run ends.
Display(t) ==
  /\ bpc = "single"
  /\ pc[t] \in {"resolved", "returned", "raised"}
  /\ pc[t] = "resolved" => coords[t] = None
  /\ ret' = [ret EXCEPT ![t] = NoBreakdown]
  /\ pc'  = [pc EXCEPT ![t] = "idle"]
  /\ UNCHANGED <<env, coords, calls, locals, res, cache, locked, runner>>

\* ------------------------------------------------------------ initial states
CoordText(c) == [http |-> FALSE, addr |-> FALSE, parts |-> <<Number(c[1]), Number(c[2])>>]
UrlText      == [http |-> TRUE,  addr |-> FALSE, parts |-> <<Word>>]
AddressText  == [http |-> FALSE, addr |-> TRUE,  parts |-> <<Word>>]

InitTasks(first) ==
  /\ pc = [t \in Rows |-> first[t]]
  /\ coords = [t \in Rows |-> None]
  /\ calls = [t \in Rows |-> {}]
  /\ score = [t \in Rows |-> 0]
  /\ details = [t \in Rows |-> << >>]
  /\ highway = [t \in Rows |-> "unknown"]
  /\ final_highway = [t \in Rows |-> "unknown"]
  /\ is_sidewalk_of_major = [t \in Rows |-> FALSE]
  /\ ret = [t \in Rows |-> NoBreakdown]
  /\ res = [t \in Rows |-> NoResult]
  /\ cache = << >>
  /\ locked = {}
  /\ results = << >>
  /\ yielded = {}
  /\ results_list = << >>

\* The sites of the batch runs: a station, a footway beside a primary road at a
\* crossing; a service road off a residential street; a residential street with
\* no drive graph in reach; nothing mapped at all.
BatchSite(c) ==
  IF c = <<1, 1>>
    THEN [station |-> TRUE, road |-> [found |-> TRUE, highway |-> <<"footway">>],
          drive |-> [found |-> TRUE, highway |-> <<"primary">>, degree |-> 3]]
  ELSE IF c = <<1, 2>>
    THEN [station |-> FALSE, road |-> [found |-> TRUE, highway |-> <<"service">>],
          drive |-> [found |-> TRUE, highway |-> <<"residential">>, degree |-> 2]]
  ELSE IF c = <<2, 1>>
    THEN [station |-> TRUE, road |-> [found |-> TRUE, highway |-> <<"residential">>],
          drive |-> NoDrive]
  ELSE [station |-> FALSE, road |-> NoRoad, drive |-> NoDrive]

BatchInputs == {CoordText(<<1, 1>>), UrlText, AddressText}
\* a maps link whose final URL carries "@1,2"
BatchURL == [at |-> <<1, 2>>, q |-> None, d3 |-> 0, d4 |-> 0]

\* The batch run: the table is uploaded, the button pressed, the rows submitted.
Init ==
  /\ www = BatchURL
  /\ geo = <<2, 1>>
  /\ world = [c \in Coords |-> BatchSite(c)]
  /\ raw_input \in [Rows -> BatchInputs]
  /\ bpc = "collect"
  /\ InitTasks([t \in Rows |-> "queued"])

\* The single search on one coordinate text, over every site.
InitScore ==
  /\ www = BatchURL
  /\ geo = None
  /\ \E s \in Sites : world = [c \in Coords |-> s]
  /\ raw_input = [t \in Rows |-> CoordText(<<1, MaxNum>>)]
  /\ bpc = "single"
  /\ InitTasks([t \in Rows |-> IF t = 0 THEN "idle" ELSE "unused"])

\* One call of extract_coords_from_input, over every text, final URL and answer
\* of the geocoder.
InitResolve ==
  /\ www \in FinalURLs
  /\ geo \in GeoAnswers
  /\ world = [c \in Coords |-> BatchSite(c)]
  /\ \E x \in Inputs : raw_input = [t \in Rows |-> x]
  /\ bpc = "single"
  /\ InitTasks([t \in Rows |-> IF t = 0 THEN "resolve" ELSE "unused"])

Assess(t) ==
  \/ CacheHit(t) \/ CacheMiss(t) \/ Check1(t) \/ Check2(t) \/ Tier(t)
  \/ Check3(t) \/ Return(t)

Next ==
  \/ \E t \in Rows : Start(t) \/ Resolve(t) \/ Assess(t) \/ RowResult(t) \/ Collect(t)
  \/ Assemble

NextScore == \E t \in Rows : Press(t) \/ Resolve(t) \/ Assess(t) \/ Display(t)

NextResolve == \E t \in Rows : Resolve(t)

Spec        == Init /\ [][Next]_vars
SpecScore   == InitScore /\ [][NextScore]_vars
SpecResolve == InitResolve /\ [][NextResolve]_vars

\* ============================================================== properties
Range(f) == { f[n] : n \in DOMAIN f }
Kinds(d) == { d[n][1] : n \in DOMAIN d }
Count(d, kinds) == Cardinality({ n \in DOMAIN d : d[n][1] \in kinds })

TransitKinds      == {"station_near", "station_far"}
RoadKinds         == {"major", "medium", "living", "service", "non_vehicle",
                      "narrow", "road_error"}
IntersectionKinds == {"intersection"}

\* The points a note of the trace announces, in half points: "(+3.0)",
\* "(+2.0)", "(+1.0)", "(+0.5)", "(+1.0)"; every other note announces none.
NotePoints(note) ==
  CASE note[1] = "station_near" -> 6
    [] note[1] = "major"        -> 4
    [] note[1] = "medium"       -> 2
    [] note[1] = "living"       -> 1
    [] note[1] = "intersection" -> 2
    [] OTHER                    -> 0

RECURSIVE SumPoints(_)
SumPoints(d) == IF d = << >> THEN 0 ELSE NotePoints(Head(d)) + SumPoints(Tail(d))

Called(t, name)   == <<name, "ok">> \in calls[t] \/ <<name, "fail">> \in calls[t]
Answered(t, name) == <<name, "ok">> \in calls[t]
OSMQueries == {"features_from_point", "graph_all_100", "graph_drive_50", "graph_simple_50"}

\* The batch has ended, or some step of it can be taken.
BatchProgress == bpc = "assembled" \/ ENABLED Next

\* The coordinates extract_coords_from_input can return for a text, over the
\* outcomes of its external calls.
Resolutions(x) ==
  { extract_coords_from_input(x, [ok |-> f, url |-> www], [ok |-> g, loc |-> geo]).ret :
      f \in BOOLEAN, g \in BOOLEAN }

\* ---------------------------------------------------------------------- C1
\* C1: the batch never fails on a missing key and never stops before it is
\* assembled; once assembled there are exactly NRows results, and the result at
\* position i is the dict the task of input row i returned: it carries index i,
\* a coordinate input row i resolves to with the breakdown of that coordinate,
\* or the failure marker (rank "ERR", score 0) when row i did not resolve.
C1_BatchKeepsRowOrder ==
  /\ bpc # "keyerror"
  /\ BatchProgress
  /\ bpc = "assembled" =>
       /\ Len(results_list) = NRows
       /\ \A i \in Rows :
            LET r == results_list[i + 1] IN
            /\ r = res[i]
            /\ r.index = i
            /\ r.coord \in Resolutions(raw_input[i])
            /\ r.coord = None =>
                 r.rank = "ERR" /\ r.score = 0 /\ r.reason = << <<"coord_failed", "">> >>
            /\ r.coord # None =>
                 /\ r.coord \in DOMAIN cache
                 /\ r.rank = cache[r.coord].rank
                 /\ r.score = cache[r.coord].score
                 /\ r.reason = cache[r.coord].detail

\* A batch assembled after the last row's future was yielded first, with a
\* failure marker in it next to a scored row.
C1_Witness ==
  /\ bpc = "assembled"
  /\ results[1].key = NRows - 1
  /\ \E i \in Rows : results_list[i + 1].rank = "ERR"
  /\ \E i \in Rows : results_list[i + 1].rank \in {"S", "A", "B", "C", "D"}

\* ---------------------------------------------------------------------- C2
MatchesAt(u) == u.at # None
MatchesQ(u)  == u.q # None /\ Len(u.q) >= 2 /\ u.q[1].num /\ u.q[2].num
MatchesD(u)  == u.d3 # 0 /\ u.d4 # 0

\* C2: a text containing "http" whose fetch succeeded and whose final URL
\* matches none of the three patterns resolves to None, and the geocoder is
\* not called.
C2_NoGeocodingAfterHttp ==
  \A t \in Rows :
    ( /\ pc[t] = "resolved"
      /\ raw_input[t].http
      /\ Answered(t, "requests.get")
      /\ ~MatchesAt(www) /\ ~MatchesQ(www) /\ ~MatchesD(www) )
    => coords[t] = None /\ ~Called(t, "geocode")

\* --------------------------------------------------------------------- C10
\* C10: when the fetch succeeded, the final URL carries both !3d and !4d, and
\* neither the '@lat,lon' segment nor a numeric q pair is there, the text
\* resolves to the coordinate of the third pattern.
C10_ThirdPatternTried ==
  \A t \in Rows :
    ( /\ pc[t] = "resolved"
      /\ raw_input[t].http
      /\ Answered(t, "requests.get")
      /\ ~MatchesAt(www) /\ ~MatchesQ(www) /\ MatchesD(www) )
    => coords[t] = <<www.d3, www.d4>>

\* ---------------------------------------------------------------------- C3
\* C3: every returned breakdown carries a transit note, then a road note, then
\* an intersection note.
C3_ThreeNotesInOrder ==
  \A t \in Rows :
    pc[t] = "returned" =>
      \E i \in DOMAIN ret[t].detail, j \in DOMAIN ret[t].detail, k \in DOMAIN ret[t].detail :
        /\ i < j /\ j < k
        /\ ret[t].detail[i][1] \in TransitKinds
        /\ ret[t].detail[j][1] \in RoadKinds
        /\ ret[t].detail[k][1] \in IntersectionKinds

\* ---------------------------------------------------------------------- C4
OneContributionEach(total, d) ==
  /\ total = SumPoints(d)
  /\ Count(d, TransitKinds) <= 1
  /\ Count(d, RoadKinds) <= 1
  /\ Count(d, IntersectionKinds) <= 1
  /\ total \in 0..12

\* C4: at every point of a call the running total is the sum of the points of
\* the notes written so far, with at most one note of the transit check, one of
\* the road check and one of the intersection check, and lies in 0..12 half
\* points; so does the total returned.
C4_TotalIsSumOfChecks ==
  \A t \in Rows :
    /\ OneContributionEach(score[t], details[t])
    /\ pc[t] = "returned" => OneContributionEach(ret[t].score, ret[t].detail)

\* A call that returned 6.0 after a rescue.
C4_Witness ==
  \E t \in Rows :
    /\ pc[t] = "returned"
    /\ ret[t].score = 12
    /\ "sidewalk_rescue" \in Kinds(ret[t].detail)

\* ---------------------------------------------------------------------- C5
\* The threshold table of the rank, in half points.
RankTable(total) ==
  CASE total >= 8               -> <<"S", "green">>
    [] total >= 6 /\ total < 8 -> <<"A", "blue">>
    [] total >= 3 /\ total < 6 -> <<"B", "orange">>
    [] total > 0 /\ total < 3  -> <<"C", "orange">>
    [] total = 0               -> <<"D", "red">>

RankOrder(r) ==
  CASE r = "D" -> 0 [] r = "C" -> 1 [] r = "B" -> 2 [] r = "A" -> 3 [] r = "S" -> 4

\* C5: the rank and color returned with a total are those of the threshold
\* table, D comes only with a trace in which no note scores, and the rank does
\* not decrease as the total grows.
C5_RankMatchesTable ==
  /\ \A t \in Rows :
       pc[t] = "returned" =>
         /\ <<ret[t].rank, ret[t].color>> = RankTable(ret[t].score)
         /\ ret[t].rank = "D" => \A n \in DOMAIN ret[t].detail :
                                   NotePoints(ret[t].detail[n]) = 0
  /\ \A a \in 0..12, b \in 0..12 :
       a <= b => RankOrder(RankOf(a).rank) <= RankOrder(RankOf(b).rank)

\* A total of exactly 3.0 returned as A.
C5_Witness ==
  \E t \in Rows : pc[t] = "returned" /\ ret[t].score = 6 /\ ret[t].rank = "A"

\* ---------------------------------------------------------------------- C6
StationPart(d) == IF "station_near" \in Kinds(d) THEN 6 ELSE 0

\* The road check of task t has just run and found this tag nearest.
RoadCheckSaw(t, tags) ==
  /\ pc[t] = "check3"
  /\ Answered(t, "graph_all_100")
  /\ world[coords[t]].road.found
  /\ FirstTag(world[coords[t]].road.highway) \in tags

\* The rescue query of task t answered with a major or medium road.
Upgradable(t) ==
  /\ Answered(t, "graph_drive_50")
  /\ world[coords[t]].drive.found
  /\ FirstTag(world[coords[t]].drive.highway) \in major_roads \cup medium_roads

\* C6: after a non-vehicle nearest tag the rescue query is made; if it answers
\* with a major or medium road the trace ends with the rescue note and that
\* road's tier note and the check adds 2.0 or 1.0; otherwise the trace ends
\* with the vehicle-inaccessible note of the original tag, there is no rescue
\* note and the check adds nothing; the error note never appears.
C6_SidewalkRescue ==
  \A t \in Rows :
    RoadCheckSaw(t, non_vehicle) =>
      LET d  == details[t]
          n  == Len(d)
          rt == FirstTag(world[coords[t]].road.highway)
          dt == FirstTag(world[coords[t]].drive.highway)
      IN  /\ Called(t, "graph_drive_50")
          /\ "road_error" \notin Kinds(d)
          /\ Upgradable(t) =>
               /\ n >= 2
               /\ d[n - 1] = <<"sidewalk_rescue", dt>>
               /\ d[n] = <<IF dt \in major_roads THEN "major" ELSE "medium", dt>>
               /\ score[t] = StationPart(d) + (IF dt \in major_roads THEN 4 ELSE 2)
          /\ ~Upgradable(t) =>
               /\ n >= 1
               /\ d[n] = <<"non_vehicle", rt>>
               /\ "sidewalk_rescue" \notin Kinds(d)
               /\ score[t] = StationPart(d)

\* A footway beside a tertiary road, scored at the medium tier.
C6_Witness ==
  \E t \in Rows :
    /\ RoadCheckSaw(t, {"footway"})
    /\ Upgradable(t)
    /\ FirstTag(world[coords[t]].drive.highway) = "tertiary"
    /\ score[t] = StationPart(details[t]) + 2

\* ---------------------------------------------------------------------- C7
\* C7: after a 'service' nearest tag no rescue query is made, the trace ends
\* with the private/service note, there is no rescue note and the check adds
\* nothing.
C7_ServiceNeverRescued ==
  \A t \in Rows :
    RoadCheckSaw(t, {"service"}) =>
      /\ ~Called(t, "graph_drive_50")
      /\ details[t] # << >>
      /\ details[t][Len(details[t])] = <<"service", "">>
      /\ "sidewalk_rescue" \notin Kinds(details[t])
      /\ score[t] = StationPart(details[t])

\* A service road with a primary road within the rescue radius.
C7_Witness ==
  \E t \in Rows :
    /\ RoadCheckSaw(t, {"service"})
    /\ world[coords[t]].drive.found
    /\ FirstTag(world[coords[t]].drive.highway) = "primary"

ExpectedRoadPoints(site, rescued) ==
  LET rt  == FirstTag(site.road.highway)
      dt  == FirstTag(site.drive.highway)
      eff == IF rt \in non_vehicle /\ rescued /\ site.drive.found
                  /\ dt \in major_roads \cup medium_roads
               THEN dt ELSE rt
  IN  CASE eff \in major_roads  -> 4
        [] eff \in medium_roads -> 2
        [] eff \in living_roads -> 1
        [] OTHER                -> 0

ExpectedTotal(t) ==
  LET site == world[coords[t]] IN
    (IF Answered(t, "features_from_point") /\ site.station THEN 6 ELSE 0)
  + (IF Answered(t, "graph_all_100") /\ site.road.found
       THEN ExpectedRoadPoints(site, Answered(t, "graph_drive_50")) ELSE 0)
  + (IF Answered(t, "graph_simple_50") /\ site.drive.found /\ site.drive.degree >= 3
       THEN 2 ELSE 0)

Ranks == {"S", "A", "B", "C", "D"}

\* C9: no task is ever left by an exception and the batch neither fails nor
\* stops before it is assembled; when the three checks have run the total is
\* the sum, over the checks, of what each adds given the outcome of its own
\* queries alone; every value returned is a complete (rank, total, trace,
\* color); every finished row holds a dict for its own index, scored or marked
\* as unresolved.
C9_NoFailureEscapes ==
  /\ bpc # "keyerror"
  /\ BatchProgress
  /\ \A t \in Rows :
       /\ pc[t] # "raised"
       /\ pc[t] = "rank" => score[t] = ExpectedTotal(t)
       /\ pc[t] = "returned" =>
            /\ ret[t].rank \in Ranks
            /\ ret[t].color \in {"green", "blue", "orange", "red"}
            /\ ret[t].score \in 0..12
       /\ pc[t] = "done" =>
            /\ res[t].index = t
            /\ \/ res[t].rank \in Ranks /\ res[t].coord # None
               \/ res[t] = FailureResult(t)

\* With the transit and road queries failed the intersection check still adds
\* its point, while another row is already finished.
C9_Witness ==
  \E t \in Rows, u \in Rows :
    /\ pc[t] = "rank"
    /\ <<"features_from_point", "fail">> \in calls[t]
    /\ <<"graph_all_100", "fail">> \in calls[t]
    /\ Answered(t, "graph_simple_50")
    /\ score[t] = 2
    /\ pc[u] = "done"
    /\ res[u].rank = "ERR"

====
